---- MODULE Spec2Model ----
(***************************************************************************)
(* EthermintApplication (src/app/app.go): the ABCI application that sits   *)
(* between the consensus engine and the ethereum backend.                  *)
(*                                                                         *)
(* The application object is the record `app`.  Its fields are the fields  *)
(* of the Go struct that the handlers read or write (checkTxState,         *)
(* requestBeginBlock, validators) together with the state of the backend   *)
(* the handlers call into (the committed state of the head block, the      *)
(* pending block's state, the head block's number and hash).  Every ABCI   *)
(* handler is an operator from the application (and the request) to the    *)
(* application after the call and the response; every request is one       *)
(* action.                                                                 *)
(***************************************************************************)
EXTENDS Integers, Sequences, FiniteSets, TLC

(***************************************************************************)
(* Bounds of the model.                                                    *)
(***************************************************************************)
\* the nonces of the transactions offered to CheckTx and DeliverTx are 0..MaxNonce
MaxNonce == 1
\* the consensus engine commits at most MaxHeight blocks
MaxHeight == 2
\* balance of the funded genesis account
GenesisBalance == 30000
\* the non-zero amount a transaction transfers
TransferValue == 100
\* encoded size of a transaction without payload
SmallLen == 110
\* balance and nonce of the sender in the good-transaction scenario
ScenarioBalance == 1000
ScenarioNonce == 5

(***************************************************************************)
(* Program constants.                                                      *)
(***************************************************************************)
maxTransactionSize == 32768
CodeTypeOK == 0
CodeInternal == 1
CodeUnknownRequest == 6
CodeUnknownAddress == 9
CodeOutOfGas == 12
\* core.IntrinsicGas(data, contractCreation, homestead = true)
TxGas == 21000
TxGasContractCreation == 53000
TxDataZeroGas == 4
TxDataNonZeroGas == 68
\* backend.GasLimit()
BlockGasLimit == 4000000

Addr == {"A", "B"}
NoAddr == "nil"
BadSig == "badsig"
NULL == "null"

(***************************************************************************)
(* state.StateDB: account -> (exists, balance, nonce).                     *)
(***************************************************************************)
EmptyAccount == [exists |-> FALSE, balance |-> 0, nonce |-> 0]

GenesisState ==
  [a \in Addr |-> IF a = "A"
                  THEN [exists |-> TRUE, balance |-> GenesisBalance, nonce |-> 0]
                  ELSE EmptyAccount]

Exist(st, a) == st[a].exists
GetNonce(st, a) == st[a].nonce
GetBalance(st, a) == st[a].balance
\* SubBalance/AddBalance/SetNonce go through GetOrNewStateObject: the account
\* exists afterwards, also when the amount is zero.
SubBalance(st, a, amount) ==
  [st EXCEPT ![a] = [@ EXCEPT !.exists = TRUE, !.balance = @ - amount]]
AddBalance(st, a, amount) ==
  [st EXCEPT ![a] = [@ EXCEPT !.exists = TRUE, !.balance = @ + amount]]
SetNonce(st, a, n) ==
  [st EXCEPT ![a] = [@ EXCEPT !.exists = TRUE, !.nonce = n]]
\* state.Copy(): a deep copy, value-equal to the original
Copy(st) == [a \in Addr |-> st[a]]

(***************************************************************************)
(* Transactions and the byte strings that carry them.                      *)
(***************************************************************************)
NoTx == [from |-> BadSig, to |-> NoAddr, value |-> 0, gasPrice |-> 0, gas |-> 0,
         nonce |-> 0, size |-> 0, nz |-> 0, z |-> 0]

MkTx(f, t, v, gp, g, n, sz, nzb) ==
  [from |-> f, to |-> t, value |-> v, gasPrice |-> gp, gas |-> g,
   nonce |-> n, size |-> sz, nz |-> nzb, z |-> 0]

\* payload-free transfers of every shape
PlainTxs ==
  {MkTx(f, t, TransferValue, gp, g, n, SmallLen, 0) :
     f \in Addr, t \in Addr \cup {NoAddr}, gp \in {0, 1},
     g \in {TxGas, TxGasContractCreation}, n \in 0..MaxNonce}

\* transfers of nothing
ZeroValueTxs ==
  {MkTx("A", "B", 0, 0, TxGas, n, SmallLen, 0) : n \in 0..MaxNonce}

\* transactions that ask for more gas than a block holds
OverGasTxs ==
  {MkTx(f, "A", TransferValue, 1, BlockGasLimit + 1, n, SmallLen, 0) :
     f \in Addr, n \in {0, MaxNonce}}

\* transactions whose signature does not recover a sender
BadSigTxs ==
  {MkTx(BadSig, "A", TransferValue, 0, g, 0, SmallLen, 0) :
     g \in {TxGas, BlockGasLimit + 1}}

\* transactions whose payload (of non-zero bytes) puts them at and above the size
\* bound, with the gas that payload needs
BigTxs ==
  {MkTx(f, "A", 0, 0, TxGas + (sz - SmallLen) * TxDataNonZeroGas, 0, sz, sz - SmallLen) :
     f \in Addr \cup {BadSig}, sz \in {maxTransactionSize, maxTransactionSize + 1}}

Txs == PlainTxs \cup ZeroValueTxs \cup OverGasTxs \cup BadSigTxs \cup BigTxs

WellFormed == {[wellformed |-> TRUE, len |-> t.size, tx |-> t] : t \in Txs}
Malformed ==
  {[wellformed |-> FALSE, len |-> l, tx |-> NoTx] :
     l \in {SmallLen, maxTransactionSize, maxTransactionSize + 1}}
Bytes == WellFormed \cup Malformed

\* decodeTx: RLP-decode the bytes into a transaction, or fail
decodeTx(b) ==
  IF b.wellformed THEN [err |-> FALSE, tx |-> b.tx] ELSE [err |-> TRUE, tx |-> NoTx]

\* a faulty variant: the cost is the value, without the gas
CostWithoutGas(tx) == tx.value

\* tx.Cost() = value + gasPrice * gas
Cost(tx) == tx.value + tx.gasPrice * tx.gas

IntrinsicGas(tx) ==
  (IF tx.to = NoAddr THEN TxGasContractCreation ELSE TxGas)
    + tx.nz * TxDataNonZeroGas + tx.z * TxDataZeroGas

\* a response: the code and what the log says (the message and the two numbers
\* it prints, 0 where it prints none) and the data (a hash) it carries
Response(code, log) == [code |-> code, log |-> log, a |-> 0, b |-> 0, data |-> <<>>]
Response2(code, log, x, y) == [code |-> code, log |-> log, a |-> x, b |-> y, data |-> <<>>]
ResponseData(log, n, d) == [code |-> CodeTypeOK, log |-> log, a |-> n, b |-> 0, data |-> d]
NoResponse == Response(CodeTypeOK, "none")

(***************************************************************************)
(* The backend (github.com/ya-enot/etherus/ethereum), as far as the        *)
(* handlers use it.                                                        *)
(***************************************************************************)
Headers == {"h1"}
ValidatorSets == {{"v1"}}

\* hash of the block built from the pending work: a digest of its number, its
\* state, its header and the rewards accumulated into it
BlockHash(n, st, hdr, rewarded) == <<n, st, hdr, rewarded>>
EmptyHash == <<>>

\* backend.InitEthState: a fresh pending block on top of the head block
InitEthState(app) ==
  [app EXCEPT !.pending = app.committed, !.pendingHeader = NULL, !.rewarded = FALSE,
              !.tally = <<>>]

\* backend.UpdateHeaderWithTimeInfo
UpdateHeaderWithTimeInfo(app, hdr) == [app EXCEPT !.pendingHeader = hdr]

\* backend.AccumulateRewards
AccumulateRewards(app) == [app EXCEPT !.rewarded = TRUE]

\* backend.GasLimit
GasLimit(app) == BlockGasLimit

\* whether the backend executes tx on the pending state
BackendAccepts(app, tx) ==
  /\ tx.from \in Addr
  /\ tx.size <= maxTransactionSize
  /\ tx.gas <= BlockGasLimit
  /\ GetNonce(app.pending, tx.from) = tx.nonce
  /\ GetBalance(app.pending, tx.from) >= Cost(tx)
  /\ tx.gas >= IntrinsicGas(tx)

\* the pending state after the backend executed tx
BackendApply(st, tx) ==
  LET s1 == SubBalance(st, tx.from, Cost(tx))
      s2 == IF tx.to # NoAddr THEN AddBalance(s1, tx.to, tx.value) ELSE s1
  IN  SetNonce(s2, tx.from, tx.nonce + 1)

\* backend.DeliverTx
BackendDeliverTx(app, tx) ==
  IF BackendAccepts(app, tx)
  THEN [app  |-> [app EXCEPT !.pending = BackendApply(app.pending, tx)],
        resp |-> Response(CodeTypeOK, "")]
  ELSE [app  |-> app, resp |-> Response(CodeInternal, "backend")]

\* backend.Commit: the pending block becomes the head block
BackendCommit(app) ==
  LET h == BlockHash(app.height + 1, app.pending, app.pendingHeader, app.rewarded)
  IN  [app |-> [app EXCEPT !.committed = app.pending,
                           !.height = app.height + 1,
                           !.headHash = h,
                           !.pendingHeader = NULL,
                           !.rewarded = FALSE,
                           !.tally = <<>>],
       blockHash |-> h]

\* app.CollectTx: the per-block tally of delivered transactions
CollectTx(app, tx) == [app EXCEPT !.tally = Append(@, tx)]

\* app.SetValidators
SetValidators(app, vs) == [app EXCEPT !.validators = vs]

\* app.GetUpdatedValidators
GetUpdatedValidators(app) == ResponseData("validators", Cardinality(app.validators), <<>>)

(***************************************************************************)
(* The handlers of EthermintApplication.  Each gives the application after *)
(* the call (app) and the response (resp).  A handler that panics leaves   *)
(* the application as it was at the panic, with aborted set.               *)
(***************************************************************************)

\* NewEthermintApplication on a fresh chain
NewEthermintApplication ==
  [checkTxState      |-> Copy(GenesisState),
   requestBeginBlock |-> NULL,
   validators        |-> {},
   tally             |-> <<>>,
   committed         |-> GenesisState,
   pending           |-> GenesisState,
   pendingHeader     |-> NULL,
   rewarded          |-> FALSE,
   height            |-> 0,
   headHash          |-> BlockHash(0, GenesisState, NULL, FALSE),
   aborted           |-> FALSE]

\* a faulty variant: the hash of the head block at every height
InfoNoSentinel(app) ==
  [app |-> app, resp |-> ResponseData("ABCIEthereum", app.height, app.headHash)]

Info(app) ==
  IF app.height = 0
  THEN [app |-> app, resp |-> ResponseData("ABCIEthereum", app.height, EmptyHash)]
  ELSE [app |-> app, resp |-> ResponseData("ABCIEthereum", app.height, app.headHash)]

SetOption(app) == [app |-> app, resp |-> Response(CodeTypeOK, "")]

InitChain(app, vs) == [app |-> SetValidators(app, vs), resp |-> Response(CodeTypeOK, "")]

\* a faulty variant: the sender pays the value and not the gas
UpdateBalancesValueOnly(st, tx) ==
  LET s1 == SubBalance(st, tx.from, tx.value)
      s2 == IF tx.to # NoAddr THEN AddBalance(s1, tx.to, tx.value) ELSE s1
  IN  SetNonce(s2, tx.from, tx.nonce + 1)

\* a faulty variant: the nonce of the sender stays
UpdateBalancesKeepsNonce(st, tx) ==
  LET s1 == SubBalance(st, tx.from, Cost(tx))
  IN  IF tx.to # NoAddr THEN AddBalance(s1, tx.to, tx.value) ELSE s1

\* the balance and nonce updates of an admitted transaction (lines 369-377)
UpdateBalances(st, tx) ==
  LET s1 == SubBalance(st, tx.from, Cost(tx))
      s2 == IF tx.to # NoAddr THEN AddBalance(s1, tx.to, tx.value) ELSE s1
  IN  SetNonce(s2, tx.from, tx.nonce + 1)

\* a faulty variant: the funds are checked before the nonce
validateTxResponseFundsFirst(app, tx) ==
  LET currentState == app.checkTxState IN
  IF tx.size > maxTransactionSize
    THEN Response(CodeInternal, "ErrOversizedData")
  ELSE IF tx.from = BadSig
    THEN Response(CodeInternal, "ErrInvalidSender")
  ELSE IF tx.value < 0
    THEN Response(CodeUnknownRequest, "ErrNegativeValue")
  ELSE IF ~Exist(currentState, tx.from)
    THEN Response(CodeUnknownAddress, "ErrInvalidSender")
  ELSE IF GasLimit(app) < tx.gas
    THEN Response(CodeOutOfGas, "ErrGasLimitReached")
  ELSE IF GetBalance(currentState, tx.from) < Cost(tx)
    THEN Response2(CodeUnknownRequest, "Current balance, tx cost",
                   GetBalance(currentState, tx.from), Cost(tx))
  ELSE IF GetNonce(currentState, tx.from) # tx.nonce
    THEN Response2(CodeInternal, "Nonce not strictly increasing",
                   GetNonce(currentState, tx.from), tx.nonce)
  ELSE IF tx.gas < IntrinsicGas(tx)
    THEN Response(CodeUnknownRequest, "ErrIntrinsicGas")
  ELSE Response(CodeTypeOK, "")

\* a faulty variant: the funds of the sender are not checked
validateTxResponseNoFunds(app, tx) ==
  LET currentState == app.checkTxState IN
  IF tx.size > maxTransactionSize
    THEN Response(CodeInternal, "ErrOversizedData")
  ELSE IF tx.from = BadSig
    THEN Response(CodeInternal, "ErrInvalidSender")
  ELSE IF tx.value < 0
    THEN Response(CodeUnknownRequest, "ErrNegativeValue")
  ELSE IF ~Exist(currentState, tx.from)
    THEN Response(CodeUnknownAddress, "ErrInvalidSender")
  ELSE IF GasLimit(app) < tx.gas
    THEN Response(CodeOutOfGas, "ErrGasLimitReached")
  ELSE IF GetNonce(currentState, tx.from) # tx.nonce
    THEN Response2(CodeInternal, "Nonce not strictly increasing",
                   GetNonce(currentState, tx.from), tx.nonce)
  ELSE IF tx.gas < IntrinsicGas(tx)
    THEN Response(CodeUnknownRequest, "ErrIntrinsicGas")
  ELSE Response(CodeTypeOK, "")

\* the checks of validateTx (lines 288-367), in the order of the code: the first
\* that fails gives the response.  core.IntrinsicGas fails only when the gas of
\* the payload overflows 64 bits, which no payload that passed the size check
\* reaches: the panic of line 361 is unreachable.
validateTxResponse(app, tx) ==
  LET currentState == app.checkTxState IN
  IF tx.size > maxTransactionSize
    THEN Response(CodeInternal, "ErrOversizedData")
  ELSE IF tx.from = BadSig
    THEN Response(CodeInternal, "ErrInvalidSender")
  ELSE IF tx.value < 0
    THEN Response(CodeUnknownRequest, "ErrNegativeValue")
  ELSE IF ~Exist(currentState, tx.from)
    THEN Response(CodeUnknownAddress, "ErrInvalidSender")
  ELSE IF GasLimit(app) < tx.gas
    THEN Response(CodeOutOfGas, "ErrGasLimitReached")
  ELSE IF GetNonce(currentState, tx.from) # tx.nonce
    THEN Response2(CodeInternal, "Nonce not strictly increasing",
                   GetNonce(currentState, tx.from), tx.nonce)
  ELSE IF GetBalance(currentState, tx.from) < Cost(tx)
    THEN Response2(CodeUnknownRequest, "Current balance, tx cost",
                   GetBalance(currentState, tx.from), Cost(tx))
  ELSE IF tx.gas < IntrinsicGas(tx)
    THEN Response(CodeUnknownRequest, "ErrIntrinsicGas")
  ELSE Response(CodeTypeOK, "")

\* a faulty variant: the admitted transaction is applied to the backend's pending state
AdmitTxOnPending(app, tx) ==
  [app EXCEPT !.pending = UpdateBalances(app.pending, tx)]

\* the writes of an admitted transaction go to currentState, which is
\* app.checkTxState (lines 319, 369-377)
AdmitTx(app, tx) ==
  [app EXCEPT !.checkTxState = UpdateBalances(app.checkTxState, tx)]

\* a faulty variant: the balances are updated before the intrinsic gas is checked
validateTxEarlyWrite(app, tx) ==
  LET r == validateTxResponse(app, tx) IN
  IF r.code = CodeTypeOK \/ r.log = "ErrIntrinsicGas"
  THEN [app |-> AdmitTx(app, tx), resp |-> r]
  ELSE [app |-> app, resp |-> r]

validateTx(app, tx) ==
  LET r == validateTxResponse(app, tx) IN
  IF r.code = CodeTypeOK
  THEN [app |-> AdmitTx(app, tx), resp |-> r]
  ELSE [app |-> app, resp |-> r]

CheckTx(app, txBytes) ==
  LET d == decodeTx(txBytes) IN
  IF d.err
  THEN [app |-> app, resp |-> Response(CodeInternal, "decode error")]
  ELSE validateTx(app, d.tx)

\* a faulty variant: the transaction is validated against checkTxState before delivery
DeliverTxValidated(app, txBytes) ==
  LET d == decodeTx(txBytes) IN
  IF d.err
  THEN [app |-> app, resp |-> Response(CodeInternal, "decode error")]
  ELSE IF validateTxResponse(app, d.tx).code # CodeTypeOK
  THEN [app |-> app, resp |-> validateTxResponse(app, d.tx)]
  ELSE LET res == BackendDeliverTx(app, d.tx) IN
       IF res.resp.code # CodeTypeOK
       THEN res
       ELSE [app |-> CollectTx(res.app, d.tx), resp |-> Response(CodeTypeOK, "")]

\* a faulty variant: the transaction is tallied before the backend's response is read
DeliverTxTalliesAll(app, txBytes) ==
  LET d == decodeTx(txBytes) IN
  IF d.err
  THEN [app |-> app, resp |-> Response(CodeInternal, "decode error")]
  ELSE LET res == BackendDeliverTx(app, d.tx) IN
       IF res.resp.code # CodeTypeOK
       THEN [app |-> CollectTx(res.app, d.tx), resp |-> res.resp]
       ELSE [app |-> CollectTx(res.app, d.tx), resp |-> Response(CodeTypeOK, "")]

\* a faulty variant: a delivered transaction is applied to checkTxState as well
DeliverTxUpdatesMempool(app, txBytes) ==
  LET d == decodeTx(txBytes) IN
  IF d.err
  THEN [app |-> app, resp |-> Response(CodeInternal, "decode error")]
  ELSE LET res == BackendDeliverTx(app, d.tx) IN
       IF res.resp.code # CodeTypeOK
       THEN res
       ELSE [app  |-> [CollectTx(res.app, d.tx) EXCEPT
                         !.checkTxState = UpdateBalances(@, d.tx)],
             resp |-> Response(CodeTypeOK, "")]

\* a faulty variant: a delivered transaction must carry the gas of a contract creation
DeliverTxStricterGas(app, txBytes) ==
  LET d == decodeTx(txBytes) IN
  IF d.err
  THEN [app |-> app, resp |-> Response(CodeInternal, "decode error")]
  ELSE IF d.tx.gas < TxGasContractCreation
  THEN [app |-> app, resp |-> Response(CodeUnknownRequest, "ErrIntrinsicGas")]
  ELSE LET res == BackendDeliverTx(app, d.tx) IN
       IF res.resp.code # CodeTypeOK
       THEN res
       ELSE [app |-> CollectTx(res.app, d.tx), resp |-> Response(CodeTypeOK, "")]

DeliverTx(app, txBytes) ==
  LET d == decodeTx(txBytes) IN
  IF d.err
  THEN [app |-> app, resp |-> Response(CodeInternal, "decode error")]
  ELSE LET res == BackendDeliverTx(app, d.tx) IN
       IF res.resp.code # CodeTypeOK
       THEN res
       ELSE [app |-> CollectTx(res.app, d.tx), resp |-> Response(CodeTypeOK, "")]

\* a faulty variant: the request is not stored
BeginBlockForgetsRequest(app, hdr, initOk) ==
  IF ~initOk
  THEN [app |-> [app EXCEPT !.aborted = TRUE], resp |-> NoResponse]
  ELSE [app  |-> UpdateHeaderWithTimeInfo(InitEthState(app), hdr),
        resp |-> Response(CodeTypeOK, "")]

\* initOk: whether backend.InitEthState succeeds
BeginBlock(app, hdr, initOk) ==
  LET a1 == [app EXCEPT !.requestBeginBlock = hdr] IN
  IF ~initOk
  THEN [app |-> [a1 EXCEPT !.aborted = TRUE], resp |-> NoResponse]
  ELSE [app  |-> UpdateHeaderWithTimeInfo(InitEthState(a1), hdr),
        resp |-> Response(CodeTypeOK, "")]

EndBlock(app) ==
  LET a1 == AccumulateRewards(app) IN
  [app |-> a1, resp |-> GetUpdatedValidators(a1)]

\* a faulty variant: checkTxState is kept over the commit
CommitKeepsCheckTxState(app, commitOk, stateOk) ==
  IF ~commitOk
  THEN [app |-> [app EXCEPT !.aborted = TRUE], resp |-> NoResponse]
  ELSE LET c == BackendCommit(app) IN
       IF ~stateOk
       THEN [app |-> [c.app EXCEPT !.aborted = TRUE], resp |-> NoResponse]
       ELSE [app  |-> [c.app EXCEPT !.requestBeginBlock = NULL],
             resp |-> ResponseData("", 0, c.blockHash)]

\* a faulty variant: checkTxState is copied from the state of the previous head block
CommitStaleSnapshot(app, commitOk, stateOk) ==
  IF ~commitOk
  THEN [app |-> [app EXCEPT !.aborted = TRUE], resp |-> NoResponse]
  ELSE LET c == BackendCommit(app) IN
       IF ~stateOk
       THEN [app |-> [c.app EXCEPT !.aborted = TRUE], resp |-> NoResponse]
       ELSE [app  |-> [c.app EXCEPT !.checkTxState = Copy(app.committed),
                                    !.requestBeginBlock = NULL],
             resp |-> ResponseData("", 0, c.blockHash)]

\* a faulty variant: the response carries the state root instead of the block hash
CommitReturnsRoot(app, commitOk, stateOk) ==
  IF ~commitOk
  THEN [app |-> [app EXCEPT !.aborted = TRUE], resp |-> NoResponse]
  ELSE LET c == BackendCommit(app) IN
       IF ~stateOk
       THEN [app |-> [c.app EXCEPT !.aborted = TRUE], resp |-> NoResponse]
       ELSE [app  |-> [c.app EXCEPT !.checkTxState = Copy(c.app.committed),
                                    !.requestBeginBlock = NULL],
             resp |-> ResponseData("", 0, <<c.app.committed>>)]

\* a faulty variant: checkTxState and requestBeginBlock are reset before the
\* committed state is read
CommitResetsFirst(app, commitOk, stateOk) ==
  IF ~commitOk
  THEN [app |-> [app EXCEPT !.aborted = TRUE], resp |-> NoResponse]
  ELSE LET c == BackendCommit(app) IN
       IF ~stateOk
       THEN [app |-> [c.app EXCEPT !.checkTxState = Copy(c.app.committed),
                                   !.requestBeginBlock = NULL,
                                   !.aborted = TRUE],
             resp |-> NoResponse]
       ELSE [app  |-> [c.app EXCEPT !.checkTxState = Copy(c.app.committed),
                                    !.requestBeginBlock = NULL],
             resp |-> ResponseData("", 0, c.blockHash)]

\* commitOk: whether backend.Commit succeeds; stateOk: whether getCurrentState does
Commit(app, commitOk, stateOk) ==
  IF ~commitOk
  THEN [app |-> [app EXCEPT !.aborted = TRUE], resp |-> NoResponse]
  ELSE LET c == BackendCommit(app) IN
       IF ~stateOk
       THEN [app |-> [c.app EXCEPT !.aborted = TRUE], resp |-> NoResponse]
       ELSE [app  |-> [c.app EXCEPT !.checkTxState = Copy(c.app.committed),
                                    !.requestBeginBlock = NULL],
             resp |-> ResponseData("", 0, c.blockHash)]

\* Commit up to the point where the committed state has been read (lines 237-252)
CommitFinalize(app, commitOk, stateOk) ==
  IF ~commitOk
  THEN [app EXCEPT !.aborted = TRUE]
  ELSE IF ~stateOk
  THEN [BackendCommit(app).app EXCEPT !.aborted = TRUE]
  ELSE BackendCommit(app).app

\* q: what becomes of the query ("badjson": json.Unmarshal fails, "rpcerr": the
\* rpc call fails, "badresult": json.Marshal fails, "ok": the result is returned)
QueryOutcomes == {"badjson", "rpcerr", "badresult", "ok"}

Query(app, q) ==
  IF q = "badjson" THEN [app |-> app, resp |-> Response(CodeInternal, "unmarshal error")]
  ELSE IF q = "rpcerr" THEN [app |-> app, resp |-> Response(CodeInternal, "rpc error")]
  ELSE IF q = "badresult" THEN [app |-> app, resp |-> Response(CodeInternal, "marshal error")]
  ELSE [app |-> app, resp |-> Response(CodeTypeOK, "result")]

(***************************************************************************)
(* The state machine.                                                      *)
(*   app     the application                                               *)
(*   ref     a second replica of the application, which receives the same  *)
(*           consensus requests (InitChain, BeginBlock, DeliverTx,         *)
(*           EndBlock, Commit) and no other request                        *)
(*   req, arg, resp   the last request, its input and its response         *)
(*   refResp the response of ref to the last consensus request             *)
(*   phase   the lifecycle state of the block protocol (Idle, InBlock,     *)
(*           Finalizing) the last requests leave the connection in         *)
(*   inOrder whether the last request arrived in a lifecycle state that    *)
(*           permits it                                                    *)
(*   admitted   per sender, the nonces of the transactions CheckTx         *)
(*           accepted since the last Commit that returned (or since        *)
(*           construction)                                                 *)
(*   accepted   the byte strings CheckTx accepted since the last Commit    *)
(*           that returned (or since construction), in their order, where  *)
(*           the requests are those the blocks are made from (CheckTxReq)  *)
(*   run     the calls of CheckTx and Commit that are under way when the   *)
(*           two connections are served by two goroutines: where each is   *)
(*           (ck, cm), the bytes of the CheckTx (b), the StateDB its local *)
(*           currentState points to (cs, old), its response (r), and       *)
(*           checkTxState as it was when the first of the two calls began  *)
(*           (sm0); overlap tells whether the two calls overlapped         *)
(***************************************************************************)
VARIABLES app, ref, req, arg, resp, refResp, phase, inOrder, admitted, accepted, run

vars == <<app, ref, req, arg, resp, refResp, phase, inOrder, admitted, accepted, run>>

NoBytes == [wellformed |-> FALSE, len |-> 0, tx |-> NoTx]

\* the byte strings the consensus engine puts into blocks, which reached it
\* through the mempool connection
BlockTxs ==
  {MkTx("A", "B", TransferValue, 0, TxGas, n, SmallLen, 0) : n \in 0..MaxNonce}
    \cup {MkTx("A", "B", TransferValue, 0, BlockGasLimit + 1, 0, SmallLen, 0)}
BlockBytes ==
  {[wellformed |-> TRUE, len |-> t.size, tx |-> t] : t \in BlockTxs}
    \cup {[wellformed |-> FALSE, len |-> SmallLen, tx |-> NoTx]}

\* the block lifecycle: the states in which a request is permitted, and the state
\* it leads to
Permitted(ph, r) ==
  CASE r = "InitChain"  -> ph = "Idle"
    [] r = "BeginBlock" -> ph = "Idle"
    [] r = "DeliverTx"  -> ph = "InBlock"
    [] r = "EndBlock"   -> ph = "InBlock"
    [] r = "Commit"     -> ph = "Finalizing"
    [] OTHER            -> TRUE

NextPhase(ph, r) ==
  CASE r = "BeginBlock" -> "InBlock"
    [] r = "EndBlock"   -> "Finalizing"
    [] r = "Commit"     -> "Idle"
    [] OTHER            -> ph

\* no call under way
IdleRun ==
  [ck |-> "idle", cm |-> "idle", b |-> NoBytes, cs |-> "none", old |-> GenesisState,
   r |-> NoResponse, sm0 |-> GenesisState, overlap |-> FALSE]

Init ==
  /\ app = NewEthermintApplication
  /\ ref = NewEthermintApplication
  /\ req = "New"
  /\ arg = NoBytes
  /\ resp = NoResponse
  /\ refResp = NoResponse
  /\ phase = "Idle"
  /\ inOrder = TRUE
  /\ admitted = [a \in Addr |-> <<>>]
  /\ accepted = <<>>
  /\ run = IdleRun

\* the request of kind r with input b is answered: out is the application after
\* it and the response; track tells whether accepted keeps the byte string
Answer(r, b, out, track) ==
  /\ ~app.aborted
  /\ app' = out.app
  /\ resp' = out.resp
  /\ req' = r
  /\ arg' = b
  /\ phase' = NextPhase(phase, r)
  /\ inOrder' = Permitted(phase, r)
  /\ admitted' =
       IF r = "CheckTx" /\ out.resp.code = CodeTypeOK
         THEN [admitted EXCEPT ![b.tx.from] = Append(@, b.tx.nonce)]
       ELSE IF r = "Commit" /\ ~out.app.aborted
         THEN [a \in Addr |-> <<>>]
       ELSE admitted
  /\ accepted' =
       IF r = "CheckTx" /\ out.resp.code = CodeTypeOK /\ track
         THEN Append(accepted, b)
       ELSE IF r = "Commit" /\ ~out.app.aborted
         THEN <<>>
       ELSE accepted

\* a request of kind r with input b arrives and is answered in one step, while
\* no other call is under way; a consensus request reaches ref as well, which
\* answers it with refOut
Serve(r, b, out) ==
  /\ run.ck \in {"idle", "done"} /\ run.cm \in {"idle", "done"}
  /\ Answer(r, b, out, FALSE)
  /\ run' = IdleRun

\* the same for a CheckTx whose byte string, when accepted, is kept in accepted
ServeTracked(r, b, out) ==
  /\ run.ck \in {"idle", "done"} /\ run.cm \in {"idle", "done"}
  /\ Answer(r, b, out, TRUE)
  /\ run' = IdleRun

Mempool == UNCHANGED <<ref, refResp>>

Consensus(refOut) == ref' = refOut.app /\ refResp' = refOut.resp

InfoReq == Serve("Info", NoBytes, Info(app)) /\ Mempool

SetOptionReq == Serve("SetOption", NoBytes, SetOption(app)) /\ Mempool

QueryReq == \E q \in QueryOutcomes : Serve("Query", NoBytes, Query(app, q)) /\ Mempool

CheckTxFrom(S) == \E b \in S : Serve("CheckTx", b, CheckTx(app, b)) /\ Mempool

CheckTxReq ==
  \E b \in BlockBytes : ServeTracked("CheckTx", b, CheckTx(app, b)) /\ Mempool

CheckTxAny == CheckTxFrom(Bytes)

\* the consensus engine sends InitChain on a chain without blocks only
InitChainReq ==
  \E vs \in ValidatorSets :
    /\ app.height = 0
    /\ Serve("InitChain", NoBytes, InitChain(app, vs)) /\ Consensus(InitChain(ref, vs))

BeginBlockReq ==
  \E hdr \in Headers, initOk \in BOOLEAN :
    /\ Serve("BeginBlock", NoBytes, BeginBlock(app, hdr, initOk))
    /\ Consensus(BeginBlock(ref, hdr, TRUE))

DeliverTxReq ==
  \E b \in BlockBytes :
    Serve("DeliverTx", b, DeliverTx(app, b)) /\ Consensus(DeliverTx(ref, b))

EndBlockReq == Serve("EndBlock", NoBytes, EndBlock(app)) /\ Consensus(EndBlock(ref))

CommitReq ==
  \E commitOk \in BOOLEAN, stateOk \in BOOLEAN :
    /\ app.height < MaxHeight
    /\ Serve("Commit", NoBytes, Commit(app, commitOk, stateOk))
    /\ Consensus(Commit(ref, TRUE, TRUE))

Next ==
  \/ InfoReq
  \/ SetOptionReq
  \/ QueryReq
  \/ CheckTxReq
  \/ InitChainReq
  \/ BeginBlockReq
  \/ DeliverTxReq
  \/ EndBlockReq
  \/ CommitReq

Spec == Init /\ [][Next]_vars

\* the mempool connection under every kind of byte string, with the blocks the
\* consensus connection commits meanwhile
AdmissionNext ==
  \/ CheckTxAny
  \/ CommitReq

AdmissionSpec == Init /\ [][AdmissionNext]_vars

(***************************************************************************)
(* The legal request sequences: the consensus engine keeps to the order of *)
(* the block lifecycle, the other requests arrive at any time.             *)
(***************************************************************************)
LegalNext ==
  \/ InfoReq
  \/ SetOptionReq
  \/ QueryReq
  \/ CheckTxReq
  \/ (Permitted(phase, "InitChain") /\ InitChainReq)
  \/ (Permitted(phase, "BeginBlock") /\ BeginBlockReq)
  \/ (Permitted(phase, "DeliverTx") /\ DeliverTxReq)
  \/ (Permitted(phase, "EndBlock") /\ EndBlockReq)
  \/ (Permitted(phase, "Commit") /\ CommitReq)

LegalSpec == Init /\ [][LegalNext]_vars

(***************************************************************************)
(* The mempool connection on a chain whose head state holds the sender of  *)
(* the good-transaction scenario: account A with nonce ScenarioNonce and   *)
(* one of several balances, below and above the cost of the transaction.   *)
(***************************************************************************)
ScenarioBalances ==
  {ScenarioBalance, TransferValue + TxGas - 1, TransferValue + TxGas, GenesisBalance}

ScenarioState(bal) ==
  [GenesisState EXCEPT !["A"] = [exists |-> TRUE, balance |-> bal, nonce |-> ScenarioNonce]]

\* the application constructed on a chain with head state st
ApplicationOn(st) ==
  [NewEthermintApplication EXCEPT !.checkTxState = Copy(st),
                                  !.committed = st,
                                  !.pending = st,
                                  !.headHash = BlockHash(0, st, NULL, FALSE)]

\* T{from=A, to=B, value, gas=21000, gasPrice, nonce}, correctly signed
ScenarioTx(gp, n) == MkTx("A", "B", TransferValue, gp, TxGas, n, SmallLen, 0)

ScenarioBytes ==
  {[wellformed |-> TRUE, len |-> SmallLen, tx |-> ScenarioTx(gp, n)] :
     gp \in {0, 1}, n \in ScenarioNonce..(ScenarioNonce + 2)}

ScenarioInit ==
  /\ \E bal \in ScenarioBalances :
       /\ app = ApplicationOn(ScenarioState(bal))
       /\ ref = ApplicationOn(ScenarioState(bal))
  /\ req = "New"
  /\ arg = NoBytes
  /\ resp = NoResponse
  /\ refResp = NoResponse
  /\ phase = "Idle"
  /\ inOrder = TRUE
  /\ admitted = [a \in Addr |-> <<>>]
  /\ accepted = <<>>
  /\ run = IdleRun

CheckTxScenario == CheckTxFrom(ScenarioBytes)

ScenarioNext ==
  \/ CheckTxScenario
  \/ CommitReq

ScenarioSpec == ScenarioInit /\ [][ScenarioNext]_vars

(***************************************************************************)
(* The two connections served by two goroutines: one CheckTx on the        *)
(* mempool connection and one Commit on the consensus connection, each     *)
(* taken statement by statement.  app.go holds no lock: the steps of the   *)
(* two calls interleave freely.  The other consensus requests are served   *)
(* in one step while no call is under way, and the consensus engine keeps  *)
(* to the order of the block lifecycle.                                    *)
(***************************************************************************)
CheckTxUnderWay == run.ck \notin {"idle", "done"}
CommitUnderWay == run.cm \notin {"idle", "done"}

\* the response of the checks that come before validateTx reads app.checkTxState
\* (lines 165-316): decode, size, signature, value
StatelessResponse(b) ==
  LET d == decodeTx(b) IN
  IF d.err
    THEN Response(CodeInternal, "decode error")
  ELSE IF d.tx.size > maxTransactionSize
    THEN Response(CodeInternal, "ErrOversizedData")
  ELSE IF d.tx.from = BadSig
    THEN Response(CodeInternal, "ErrInvalidSender")
  ELSE IF d.tx.value < 0
    THEN Response(CodeUnknownRequest, "ErrNegativeValue")
  ELSE Response(CodeTypeOK, "")

\* a StateDB whose initialisation is not visible to the goroutine that reads it
Uninitialised == [a \in Addr |-> EmptyAccount]

\* the StateDB the local currentState of the CheckTx under way points to
CurrentState ==
  CASE run.cs = "cur" -> app.checkTxState
    [] run.cs = "old" -> run.old
    [] OTHER          -> Uninitialised

\* a write of the CheckTx under way through its currentState, which leaves the
\* CheckTx at pc: the StateDB it points to becomes st
WriteCurrentState(st, pc) ==
  IF run.cs = "cur"
  THEN /\ app' = [app EXCEPT !.checkTxState = st]
       /\ run' = [run EXCEPT !.ck = pc]
  ELSE /\ app' = app
       /\ run' = [run EXCEPT !.ck = pc, !.old = st]

Others == UNCHANGED <<ref, refResp, req, arg, resp, phase, inOrder, admitted, accepted>>

\* CheckTx is called with b (lines 164-316): the record of the calls under way
\* starts anew unless a Commit is under way; one CheckTx at most overlaps a Commit
CheckTxCall ==
  \E b \in BlockBytes :
    LET base == IF CommitUnderWay
                  THEN [run EXCEPT !.overlap = TRUE, !.b = b]
                  ELSE [IdleRun EXCEPT !.sm0 = app.checkTxState, !.b = b]
        r == StatelessResponse(b)
    IN  /\ ~app.aborted
        /\ ~CheckTxUnderWay
        /\ CommitUnderWay => run.ck = "idle"
        /\ IF r.code # CodeTypeOK
             THEN /\ Answer("CheckTx", b, [app |-> app, resp |-> r], FALSE)
                  /\ run' = [base EXCEPT !.ck = "done", !.r = r]
                  /\ Mempool
             ELSE /\ run' = [base EXCEPT !.ck = "called"]
                  /\ app' = app
                  /\ Others

\* currentState := app.checkTxState (line 319).  Commit writes the field at line
\* 254 without synchronisation: a read that races with that write gets the
\* pointer from before the write or the one from after it, and the pointer from
\* after it with or without the contents the copy put behind it.
CheckTxLoad ==
  /\ ~app.aborted
  /\ run.ck = "called"
  /\ \E c \in (IF run.cm = "replaced" THEN {"cur", "old", "raw"} ELSE {"cur"}) :
       run' = [run EXCEPT !.ck = "loaded", !.cs = c]
  /\ app' = app
  /\ Others

\* the checks on currentState (lines 322-367)
CheckTxValidate ==
  LET tx == run.b.tx
      r == validateTxResponse([app EXCEPT !.checkTxState = CurrentState], tx)
  IN  /\ ~app.aborted
      /\ run.ck = "loaded"
      /\ IF r.code # CodeTypeOK
           THEN /\ Answer("CheckTx", run.b, [app |-> app, resp |-> r], FALSE)
                /\ run' = [run EXCEPT !.ck = "done", !.r = r]
                /\ Mempool
           ELSE /\ run' = [run EXCEPT !.ck = "validated"]
                /\ app' = app
                /\ Others

\* currentState.SubBalance(from, tx.Cost()) (line 371)
CheckTxDebit ==
  /\ ~app.aborted
  /\ run.ck = "validated"
  /\ WriteCurrentState(SubBalance(CurrentState, run.b.tx.from, Cost(run.b.tx)), "debited")
  /\ Others

\* currentState.AddBalance(*to, tx.Value()) when there is a recipient (lines 374-376)
CheckTxCredit ==
  LET tx == run.b.tx IN
  /\ ~app.aborted
  /\ run.ck = "debited"
  /\ WriteCurrentState(IF tx.to # NoAddr
                         THEN AddBalance(CurrentState, tx.to, tx.value)
                         ELSE CurrentState, "credited")
  /\ Others

\* currentState.SetNonce(from, tx.Nonce()+1) and the return (lines 377-379)
CheckTxReturn ==
  LET tx == run.b.tx
      st == SetNonce(CurrentState, tx.from, tx.nonce + 1)
      r == Response(CodeTypeOK, "")
  IN  /\ run.ck = "credited"
      /\ Answer("CheckTx", run.b,
                [app |-> IF run.cs = "cur" THEN [app EXCEPT !.checkTxState = st] ELSE app,
                 resp |-> r], FALSE)
      /\ run' = [run EXCEPT !.ck = "done", !.r = r,
                             !.old = IF run.cs = "cur" THEN @ ELSE st]
      /\ Mempool

\* Commit is called (lines 237-252): the record of the calls under way starts
\* anew unless a CheckTx is under way; one Commit at most overlaps a CheckTx
CommitCall ==
  \E commitOk \in BOOLEAN, stateOk \in BOOLEAN :
    LET base == IF CheckTxUnderWay
                  THEN [run EXCEPT !.overlap = TRUE]
                  ELSE [IdleRun EXCEPT !.sm0 = app.checkTxState]
        fin == CommitFinalize(app, commitOk, stateOk)
    IN  /\ ~app.aborted
        /\ app.height < MaxHeight
        /\ Permitted(phase, "Commit")
        /\ ~CommitUnderWay
        /\ CheckTxUnderWay => run.cm = "idle"
        /\ IF fin.aborted
             THEN /\ Answer("Commit", NoBytes, [app |-> fin, resp |-> NoResponse], FALSE)
                  /\ run' = [base EXCEPT !.cm = "done"]
                  /\ Consensus(Commit(ref, TRUE, TRUE))
             ELSE /\ app' = fin
                  /\ run' = [base EXCEPT !.cm = "finalized"]
                  /\ Others

\* app.checkTxState = state.Copy() (line 254): the StateDB the field pointed to
\* is left to the CheckTx that holds it
CommitReplace ==
  /\ ~app.aborted
  /\ run.cm = "finalized"
  /\ app' = [app EXCEPT !.checkTxState = Copy(app.committed)]
  /\ run' = [run EXCEPT !.cm = "replaced",
                         !.old = app.checkTxState,
                         !.cs = IF @ = "cur" THEN "old" ELSE @]
  /\ Others

\* app.requestBeginBlock = nil and the return (lines 255-259)
CommitReturn ==
  /\ run.cm = "replaced"
  /\ Answer("Commit", NoBytes,
            [app  |-> [app EXCEPT !.requestBeginBlock = NULL],
             resp |-> ResponseData("", 0, app.headHash)], FALSE)
  /\ run' = [run EXCEPT !.cm = "done"]
  /\ Consensus(Commit(ref, TRUE, TRUE))

ConcurrentNext ==
  \/ CheckTxCall
  \/ CheckTxLoad
  \/ CheckTxValidate
  \/ CheckTxDebit
  \/ CheckTxCredit
  \/ CheckTxReturn
  \/ CommitCall
  \/ CommitReplace
  \/ CommitReturn
  \/ (Permitted(phase, "BeginBlock") /\ BeginBlockReq)
  \/ (Permitted(phase, "DeliverTx") /\ DeliverTxReq)
  \/ (Permitted(phase, "EndBlock") /\ EndBlockReq)

ConcurrentSpec == Init /\ [][ConcurrentNext]_vars

(***************************************************************************)
(* Properties.                                                             *)
(***************************************************************************)
Sm == app.checkTxState
Sc == app.committed

\* value equality of two states: the same balance and nonce for every account
ValueEqual(s, t) ==
  \A a \in Addr : s[a].balance = t[a].balance /\ s[a].nonce = t[a].nonce

Range(q) == {q[i] : i \in 1..Len(q)}

\* C1 (mempool freshness): in the state right after a Commit that returned a
\* response, checkTxState is value-equal to the committed state, whatever
\* requests preceded the Commit.
C1_MempoolFreshness ==
  (req = "Commit" /\ ~app.aborted) => ValueEqual(Sm, Sc)

\* a Commit returned that committed a delivered transaction
C1_Witness ==
  /\ req = "Commit" /\ ~app.aborted
  /\ Sc["A"].nonce = 1 /\ Sc["B"].balance = TransferValue
  /\ Sm["A"].nonce = 1

\* C2 as stated (admission effect): an accepted CheckTx of T found T.nonce in Sm,
\* and leaves nonce(s) = T.nonce + 1, balance(s) = old balance(s) - cost(T) and
\* balance(r) = old balance(r) + T.value for a recipient r, also when r = s.
C2_AsStated ==
  [][(req' = "CheckTx" /\ resp'.code = CodeTypeOK) =>
       LET tx == arg'.tx
           old == app.checkTxState
           new == app'.checkTxState
       IN  /\ tx.nonce = old[tx.from].nonce
           /\ new[tx.from].nonce = tx.nonce + 1
           /\ new[tx.from].balance = old[tx.from].balance - Cost(tx)
           /\ tx.to # NoAddr => new[tx.to].balance = old[tx.to].balance + tx.value]_vars

\* C2 (admission effect, amended): as stated when the recipient is another
\* account or absent; when the recipient is the sender, the one balance is debited
\* the cost and credited the value: balance(s) = old balance(s) - cost(T) + T.value.
C2_AdmissionEffect ==
  [][(req' = "CheckTx" /\ resp'.code = CodeTypeOK) =>
       LET tx == arg'.tx
           old == app.checkTxState
           new == app'.checkTxState
       IN  /\ tx.nonce = old[tx.from].nonce
           /\ new[tx.from].nonce = tx.nonce + 1
           /\ IF tx.to = tx.from
                THEN new[tx.from].balance = old[tx.from].balance - Cost(tx) + tx.value
                ELSE /\ new[tx.from].balance = old[tx.from].balance - Cost(tx)
                     /\ tx.to # NoAddr =>
                          new[tx.to].balance = old[tx.to].balance + tx.value
           /\ \A a \in Addr \ {tx.from, tx.to} : new[a] = old[a]]_vars

\* CheckTx accepted a transfer that pays for gas and whose recipient is its sender
C2_Witness ==
  /\ req = "CheckTx" /\ resp.code = CodeTypeOK
  /\ arg.tx.to = arg.tx.from /\ arg.tx.value > 0 /\ arg.tx.gasPrice > 0

\* C3: a CheckTx that returns a code other than OK leaves checkTxState as it was.
C3_RejectedChangesNothing ==
  [][(req' = "CheckTx" /\ resp'.code # CodeTypeOK) =>
       app'.checkTxState = app.checkTxState]_vars

\* CheckTx rejected, for its gas, a transaction whose nonce and funds were right
C3_Witness ==
  /\ req = "CheckTx" /\ resp.log = "ErrIntrinsicGas"
  /\ Sm["A"].nonce = 1

\* C4 as stated (nonce monotonicity): the accepted nonces of a sender since the
\* last Commit are n, n+1, ... from the committed nonce n, and a transaction of
\* the sender that arrives with an already accepted nonce gets the BadNonce
\* response.
C4_AsStated ==
  [][(/\ req' = "CheckTx" /\ arg'.wellformed /\ arg'.tx.from \in Addr
      /\ arg'.tx.nonce \in Range(admitted[arg'.tx.from])) =>
       resp'.log = "Nonce not strictly increasing"]_vars

\* the accepted nonces of every sender since the last Commit count up from the
\* nonce the sender has in the committed state
C4_Consecutive ==
  ~app.aborted =>
    \A s \in Addr : \A i \in 1..Len(admitted[s]) :
      admitted[s][i] = Sc[s].nonce + i - 1

\* C4 (nonce monotonicity, amended): the accepted nonces of a sender since the
\* last Commit are n, n+1, ... from the committed nonce n; a transaction of the
\* sender that arrives with an already accepted nonce is rejected, with the
\* BadNonce response when it passes the checks that come before the nonce check
\* (size, signature, value, sender exists, gas limit), as the same bytes do.
C4_NonceMonotonicity ==
  /\ []C4_Consecutive
  /\ [][(/\ req' = "CheckTx" /\ arg'.wellformed /\ arg'.tx.from \in Addr
          /\ arg'.tx.nonce \in Range(admitted[arg'.tx.from])) =>
           /\ resp'.code # CodeTypeOK
           /\ (arg'.tx.size <= maxTransactionSize /\ arg'.tx.gas <= BlockGasLimit) =>
                /\ resp'.code = CodeInternal
                /\ resp'.log = "Nonce not strictly increasing"
                /\ resp'.a = app.checkTxState[arg'.tx.from].nonce
                /\ resp'.b = arg'.tx.nonce]_vars

\* the bytes CheckTx accepted were submitted again and rejected for their nonce,
\* in a mempool copied from a committed state in which the sender's nonce is 1
C4_Witness ==
  /\ req = "CheckTx" /\ resp.log = "Nonce not strictly increasing"
  /\ Sc["A"].nonce = 1
  /\ admitted["A"] = <<1>> /\ arg.tx.from = "A" /\ arg.tx.nonce = 1

\* C5 as stated (lifecycle safety): a BeginBlock, DeliverTx, EndBlock, Commit or
\* InitChain request that arrives in a lifecycle state that does not permit it
\* aborts the process instead of being executed.
C5_LifecycleSafety ==
  ~inOrder => app.aborted

\* C6: no CheckTx changes the committed state or the pending block's state, and
\* the committed state changes only inside Commit.
C6_AdmissionFrame ==
  [][/\ req' = "CheckTx" =>
          /\ app'.committed = app.committed
          /\ app'.pending = app.pending
          /\ app'.headHash = app.headHash
     /\ app'.committed # app.committed => req' = "Commit"]_vars

\* CheckTx accepted a transaction while a block was pending: checkTxState differs
\* from the committed state and from the pending state
C6_Witness ==
  /\ req = "CheckTx" /\ resp.code = CodeTypeOK
  /\ Sm # Sc /\ Sm # app.pending /\ app.pending # Sc

\* the code of the first failing check, in the order size bound (of the bytes),
\* decode, signature, value, sender exists, gas limit, nonce, funds, intrinsic gas
FirstFailure(st, b) ==
  LET tx == b.tx IN
  CASE b.len > maxTransactionSize           -> CodeInternal
    [] ~b.wellformed                        -> CodeInternal
    [] tx.from \notin Addr                  -> CodeInternal
    [] tx.value < 0                         -> CodeUnknownRequest
    [] ~st[tx.from].exists                  -> CodeUnknownAddress
    [] tx.gas > BlockGasLimit               -> CodeOutOfGas
    [] tx.nonce # st[tx.from].nonce         -> CodeInternal
    [] st[tx.from].balance < tx.value + tx.gasPrice * tx.gas -> CodeUnknownRequest
    [] tx.gas < IntrinsicGas(tx)            -> CodeUnknownRequest
    [] OTHER                                -> CodeTypeOK

\* C7: the code CheckTx returns is the code of the first failing check in the
\* order size, decode, signature, value, sender exists, gas limit, nonce, funds,
\* intrinsic gas, and OK when no check fails.
C7_FirstFailingCheck ==
  [][req' = "CheckTx" => resp'.code = FirstFailure(app.checkTxState, arg')]_vars

\* CheckTx gave the BadNonce response to a transaction with a wrong nonce that
\* its sender cannot pay either
C7_Witness ==
  /\ req = "CheckTx" /\ arg.wellformed /\ arg.tx.from \in Addr
  /\ arg.tx.nonce # Sm[arg.tx.from].nonce
  /\ Sm[arg.tx.from].balance < Cost(arg.tx)
  /\ resp.code = CodeInternal /\ resp.log = "Nonce not strictly increasing"

\* C8 (Info sentinel): Info changes no state; at height 0 it returns height 0
\* and an empty hash, at height h > 0 it returns h and the head block's hash.
C8_InfoSentinel ==
  [][req' = "Info" =>
       /\ app' = app
       /\ resp'.a = app.height
       /\ resp'.data = IF app.height = 0 THEN <<>> ELSE app.headHash]_vars

\* Info answered on a chain with a block: the hash it returned is not empty
C8_Witness ==
  /\ req = "Info" /\ app.height > 0
  /\ resp.a = app.height /\ resp.data = app.headHash /\ resp.data # <<>>

\* C9 (determinism): a replica that received the same consensus requests and no
\* CheckTx, Info, SetOption or Query has the same committed state, pending state
\* and head hash, and gave the same response to the last DeliverTx or Commit.
C9_Determinism ==
  ~app.aborted =>
    /\ app.committed = ref.committed
    /\ app.pending = ref.pending
    /\ app.height = ref.height
    /\ app.headHash = ref.headHash
    /\ req \in {"DeliverTx", "Commit"} => resp = refResp

\* in the second block, a DeliverTx was executed on a replica whose checkTxState
\* had admitted a transaction the other replica never saw
C9_Witness ==
  /\ req = "DeliverTx" /\ ~app.aborted /\ resp.code = CodeTypeOK /\ resp = refResp
  /\ app.checkTxState # ref.checkTxState
  /\ app.height = 1 /\ Sc["A"].nonce = 1

\* C10: a DeliverTx never aborts; bytes that do not decode get code Internal, a
\* transaction the backend rejects gets the backend's response, and the
\* transaction joins the tally exactly when the response is OK.
C10_DeliveryFailuresReported ==
  [][req' = "DeliverTx" =>
       /\ ~app'.aborted
       /\ phase' = phase
       /\ ~arg'.wellformed =>
            resp'.code = CodeInternal /\ resp'.log = "decode error"
       /\ (arg'.wellformed /\ ~BackendAccepts(app, arg'.tx)) =>
            resp' = BackendDeliverTx(app, arg'.tx).resp /\ resp'.code # CodeTypeOK
       /\ app'.tally = IF resp'.code = CodeTypeOK
                         THEN Append(app.tally, arg'.tx)
                         ELSE app.tally
       /\ resp'.code # CodeTypeOK => app'.pending = app.pending]_vars

\* inside a block that holds a delivered transaction, a DeliverTx was rejected
C10_Witness ==
  /\ req = "DeliverTx" /\ resp.code # CodeTypeOK /\ ~app.aborted
  /\ phase = "InBlock" /\ app.requestBeginBlock # NULL
  /\ Len(app.tally) = 1

\* C11 (Commit failure is fatal): a Commit in which backend.Commit fails, or in
\* which the committed state cannot be read after it, aborts the process: no
\* response is returned, and checkTxState and requestBeginBlock are as they were
\* before the Commit; a Commit returns a response only when both succeeded.
C11_CommitFailureFatal ==
  [][req' = "Commit" =>
       \E commitOk \in BOOLEAN, stateOk \in BOOLEAN :
         /\ app' = Commit(app, commitOk, stateOk).app
         /\ resp' = Commit(app, commitOk, stateOk).resp
         /\ app'.aborted <=> ~(commitOk /\ stateOk)
         /\ app'.aborted =>
              /\ resp' = NoResponse
              /\ app'.checkTxState = app.checkTxState
              /\ app'.requestBeginBlock = app.requestBeginBlock]_vars

\* a Commit aborted after the backend committed a block with a delivered
\* transaction: the head block is the new one, checkTxState is still the one
\* from before the Commit and the BeginBlock request is still stored
C11_Witness ==
  /\ req = "Commit" /\ app.aborted /\ resp = NoResponse
  /\ app.height = 1 /\ Sc["A"].nonce = 1
  /\ Sm["A"].nonce = 0 /\ app.requestBeginBlock # NULL

\* the predicates on a byte string that read no state: size bound, decode,
\* signature recovery, non-negative value, intrinsic gas
StatelessPass(b) ==
  /\ b.len <= maxTransactionSize
  /\ b.wellformed
  /\ b.tx.from \in Addr
  /\ b.tx.value >= 0
  /\ b.tx.gas >= IntrinsicGas(b.tx)

\* the predicates on a transaction that read the state st: block gas ceiling,
\* nonce, funds
StatefulPass(st, tx) ==
  /\ tx.gas <= BlockGasLimit
  /\ st[tx.from].nonce = tx.nonce
  /\ st[tx.from].balance >= tx.value + tx.gasPrice * tx.gas

CheckTxThenCommit(sm, sc, b) ==
  [resp |-> CheckTx([app EXCEPT !.checkTxState = sm], b).resp,
   sm   |-> Copy(sc)]

\* the response and the final checkTxState of Commit followed by CheckTx(b)
CommitThenCheckTx(sc, b) ==
  LET out == CheckTx([app EXCEPT !.checkTxState = Copy(sc)], b)
  IN  [resp |-> out.resp, sm |-> out.app.checkTxState]

C14_CommitInfoAgree ==
  /\ [](req = "New" => Info(app).resp.a = 0 /\ Info(app).resp.data = <<>>)
  /\ [][/\ (req' = "Commit" /\ ~app'.aborted) =>
             /\ resp'.data # <<>>
             /\ Info(app').resp.data = resp'.data
             /\ Info(app').resp.a = Info(app).resp.a + 1
        /\ req' # "Commit" => Info(app').resp = Info(app).resp]_vars

\* the Commit of the second complete cycle returned, with a delivered
\* transaction in each of the two blocks
C14_Witness ==
  /\ req = "Commit" /\ ~app.aborted /\ inOrder
  /\ app.height = 2 /\ Sc["A"].nonce = 2
  /\ resp.data = Info(app).resp.data /\ Info(app).resp.a = 2

\* the state st after the balance and nonce updates of the transactions in the
\* byte strings q, in their order
ApplyAll(st, q) ==
  LET f[i \in 0..Len(q)] ==
        IF i = 0 THEN st ELSE UpdateBalances(f[i - 1], q[i].tx)
  IN  f[Len(q)]

\* C15 as stated: when a BeginBlock arrives in the Idle state, checkTxState is
\* value-equal to the committed state, also when CheckTx requests arrived since
\* the last Commit.
C15_AsStated ==
  (req = "BeginBlock" /\ inOrder) => ValueEqual(Sm, Sc)

\* C15 (amended): when a BeginBlock arrives in the Idle state, checkTxState is
\* the committed state advanced by the balance and nonce updates of the byte
\* strings CheckTx accepted since the last Commit (or since construction), in
\* their order; it equals the committed state when CheckTx accepted none.
C15_MempoolAtBeginBlock ==
  (req = "BeginBlock" /\ inOrder) =>
    /\ Sm = ApplyAll(Sc, accepted)
    /\ accepted = <<>> => ValueEqual(Sm, Sc)

\* the BeginBlock of the second block arrived after CheckTx had accepted a
\* transaction since the Commit of the first, which held a delivered transaction
C15_Witness ==
  /\ req = "BeginBlock" /\ inOrder /\ ~app.aborted
  /\ app.height = 1 /\ Sc["A"].nonce = 1
  /\ Len(accepted) = 1 /\ Sm["A"].nonce = 2 /\ ~ValueEqual(Sm, Sc)

\* C16 as stated (the size bound comes first, on the raw input): a CheckTx of a
\* byte string longer than maxTransactionSize answers Internal with the
\* oversized-data message, whether the bytes decode or not; a CheckTx of a byte
\* string of at most maxTransactionSize bytes never answers with that message.
C16_SizeBoundFirst ==
  [][req' = "CheckTx" =>
       IF arg'.len > maxTransactionSize
       THEN resp'.code = CodeInternal /\ resp'.log = "ErrOversizedData"
       ELSE resp'.log # "ErrOversizedData"]_vars

\* the good transaction T{from=A, to=B, value=100, gas=21000, gasPrice=1, nonce=5}
\* arrives while A has balance 1000 and nonce 5 in checkTxState
GoodTransactionArrives ==
  /\ req' = "CheckTx"
  /\ arg' = [wellformed |-> TRUE, len |-> SmallLen, tx |-> ScenarioTx(1, ScenarioNonce)]
  /\ app.checkTxState["A"] =
       [exists |-> TRUE, balance |-> ScenarioBalance, nonce |-> ScenarioNonce]

\* C17 as stated (good-transaction scenario): CheckTx returns OK and afterwards
\* the nonce of A in checkTxState is 6 and its balance 879.
C17_AsStated ==
  [][GoodTransactionArrives =>
       /\ resp'.code = CodeTypeOK
       /\ app'.checkTxState["A"].nonce = ScenarioNonce + 1
       /\ app'.checkTxState["A"].balance = 879]_vars

\* C17 (amended): the cost of T is 100 + 1 * 21000 = 21100, more than the balance
\* 1000: CheckTx rejects T for its funds (code UnknownRequest, balance 1000, cost
\* 21100) and checkTxState stays as it was; with a balance of at least 21100
\* CheckTx returns OK, the nonce of A becomes 6 and its balance 21100 less.
C17_GoodTransaction ==
  /\ [][GoodTransactionArrives =>
          /\ resp'.code = CodeUnknownRequest
          /\ resp'.log = "Current balance, tx cost"
          /\ resp'.a = ScenarioBalance /\ resp'.b = TransferValue + TxGas
          /\ app'.checkTxState = app.checkTxState]_vars
  /\ [][(/\ req' = "CheckTx"
          /\ arg'.tx = ScenarioTx(1, ScenarioNonce)
          /\ app.checkTxState["A"].nonce = ScenarioNonce
          /\ app.checkTxState["A"].balance >= TransferValue + TxGas) =>
          /\ resp'.code = CodeTypeOK
          /\ app'.checkTxState["A"].nonce = ScenarioNonce + 1
          /\ app'.checkTxState["A"].balance =
               app.checkTxState["A"].balance - (TransferValue + TxGas)]_vars

\* CheckTx rejected the good transaction for its funds while A had balance 1000
\* and nonce 5
C17_Witness ==
  /\ req = "CheckTx" /\ arg.tx = ScenarioTx(1, ScenarioNonce)
  /\ resp.code = CodeUnknownRequest /\ resp.a = ScenarioBalance
  /\ resp.b = TransferValue + TxGas
  /\ Sm["A"] = [exists |-> TRUE, balance |-> ScenarioBalance, nonce |-> ScenarioNonce]

\* C18 (per-block transient state): in a legal request sequence the stored
\* BeginBlock request is present exactly in the lifecycle states InBlock and
\* Finalizing; DeliverTx, EndBlock and CheckTx leave it as it is, and every
\* Commit that returns clears it.
C18_TransientState ==
  /\ [](~app.aborted =>
          (app.requestBeginBlock # NULL <=> phase \in {"InBlock", "Finalizing"}))
  /\ [][/\ req' \in {"DeliverTx", "EndBlock", "CheckTx"} =>
             app'.requestBeginBlock = app.requestBeginBlock
        /\ (req' = "Commit" /\ ~app'.aborted) => app'.requestBeginBlock = NULL]_vars

\* in the second block, after EndBlock, CheckTx accepted a transaction: the
\* BeginBlock request is still stored
C18_Witness ==
  /\ req = "CheckTx" /\ resp.code = CodeTypeOK /\ ~app.aborted
  /\ phase = "Finalizing" /\ app.height = 1
  /\ app.requestBeginBlock # NULL /\ Len(app.tally) = 1

\* C19 (checkTxState has a single writer): Info, SetOption, InitChain,
\* BeginBlock, DeliverTx, EndBlock and Query leave checkTxState as it is; it
\* changes only in a CheckTx that returns OK and in a Commit that returns, which
\* makes it a copy of the committed state.
C19_SingleWriter ==
  [][/\ req' \notin {"CheckTx", "Commit"} => app'.checkTxState = app.checkTxState
     /\ app'.checkTxState # app.checkTxState =>
          \/ req' = "CheckTx" /\ resp'.code = CodeTypeOK
          \/ req' = "Commit" /\ ~app'.aborted
                /\ app'.checkTxState = app'.committed]_vars

\* a transaction was delivered into the pending block: the pending state holds
\* it, checkTxState and the committed state do not
C19_Witness ==
  /\ req = "DeliverTx" /\ resp.code = CodeTypeOK /\ ~app.aborted
  /\ app.pending["A"].nonce = 1 /\ app.pending["B"].balance = TransferValue
  /\ Sm["A"].nonce = 0 /\ Sm["B"].balance = 0 /\ Sm = Sc

\* C20 (checkTxState balances never go negative): under any sequence of CheckTx
\* requests and Commits no balance in checkTxState is negative, and an accepted
\* transaction costs its sender no more than the balance checkTxState held for it.
C20_BalancesNonNegative ==
  /\ [](\A a \in Addr : Sm[a].balance >= 0 /\ Sc[a].balance >= 0)
  /\ [][(req' = "CheckTx" /\ resp'.code = CodeTypeOK) =>
          /\ Cost(arg'.tx) <= app.checkTxState[arg'.tx.from].balance
          /\ app'.checkTxState[arg'.tx.from].balance >= 0]_vars

\* CheckTx rejected, for its funds, a transaction with the right nonce whose
\* sender had paid for an accepted one before
C20_Witness ==
  /\ req = "CheckTx" /\ resp.code = CodeUnknownRequest
  /\ resp.log = "Current balance, tx cost"
  /\ arg.tx.nonce = 1 /\ Sm[arg.tx.from].nonce = 1
  /\ Sm[arg.tx.from].balance < GenesisBalance
  /\ Sm[arg.tx.from].balance < Cost(arg.tx)

====
